---- MODULE Spec2Model ----
(***************************************************************************)
(* A model of musicalibre.py: the RateLimiter shared by concurrent         *)
(* callers, the metadata extractor, the cover-art selector and the         *)
(* download pipeline (single video, playlist, batch) with its per-album    *)
(* track counters.                                                         *)
(***************************************************************************)
EXTENDS Integers, Sequences, FiniteSets, TLC

VARIABLES
    max_calls,      \* RateLimiter.max_calls
    period,         \* RateLimiter.period (clock ticks)
    calls,          \* RateLimiter.calls: timestamps of recent grants
    lock,           \* RateLimiter.lock: the thread holding it, or NoThread
    clock,          \* time.time()
    pc,             \* each concurrent caller's position inside acquire()
    now,            \* each caller's local `now` (line 398)
    wake,           \* each caller's wake-up time (now + sleep_time)
    grants,         \* history: every timestamp the concurrent callers appended
    started,        \* history: number of acquire() calls the callers made
    title,          \* argument of extract_metadata_from_title
    video_info,     \* argument of extract_metadata_from_title / download_cover_art
    metadata,       \* what extract_metadata_from_title returned or raised
    cover,          \* what download_cover_art did
    fpc,            \* position of the function under study: "ready" or "done"
    track_counters, \* YouTubeMusicDownloader.track_counters
    ppc,            \* position of main(): "menu", "playlist", "batch", "exited"
    entries,        \* the entries (or batch URLs) of the current run
    idx,            \* index of the next entry of the current run
    success_count,  \* download_playlist's success_count
    rets,           \* history: what download_video returned for each entry tried
    finished,       \* how the last playlist or batch run ended
    events,         \* history: acquire() and network calls of the last operation
    last,           \* history: the last track number assigned, and for what
    issued,         \* history: number of assignments per (artist, album) pair
    ops             \* history: number of operations started

limVars == <<max_calls, period, calls, lock, clock, pc, now, wake, grants, started>>
funVars == <<title, video_info, metadata, cover, fpc>>
pipVars == <<track_counters, ppc, entries, idx, success_count, rets, finished,
             events, last, issued, ops>>

vars == <<limVars, funVars, pipVars>>

(***************************************************************************)
(* Bounds of the model.                                                    *)
(***************************************************************************)
NumThreads == 2
MaxMaxCalls == 2
MaxPeriod == 2
MaxTime == 3
MaxAcquires == 3
MaxTitleLen == 3
MaxYearLen == 5
MaxThumbs == 2
MaxEntries == 2
MaxOps == 2

Threads == 1..NumThreads
NoThread == 0

(***************************************************************************)
(* RateLimiter (lines 389-405).                                            *)
(***************************************************************************)

\* Line 400: self.calls = [t for t in self.calls if t > now - self.period]
Evict(cs, n, p) == SelectSeq(cs, LAMBDA t : t > n - p)

\* Line 402: sleep_time = self.period - (now - self.calls[0])
SleepTime(cs, n, p) == p - (n - cs[1])

\* Line 405: the timestamp appended is a fresh time.time(), read after the wait.
GrantStampStale(t) == now[t]
GrantStamp(t) == clock

\* Line 397: leaving `with self.lock:` releases the lock.
LockAfterExitLeak(t) == t
LockAfterExit(t) == NoThread

\* The parts of the program a specification does not exercise stay in
\* their state after construction (line 28, line 343).
NoMetadata == [raised |-> FALSE, md |-> <<>>]
NoCover == [result |-> "None", best |-> 0, fetched |-> FALSE]
NoAssignment == [artist |-> <<>>, album |-> <<>>, track |-> <<>>, n |-> 0]
NoneInfo == [none |-> TRUE]

\* Line 408: youtube_rate_limiter = RateLimiter(max_calls=10, period=1)
DefaultMaxCalls == 10
DefaultPeriod == 1

RateLimiterParked ==
    /\ max_calls = DefaultMaxCalls
    /\ period = DefaultPeriod
    /\ calls = <<>>
    /\ lock = NoThread
    /\ clock = 0
    /\ pc = [t \in Threads |-> "idle"]
    /\ now = [t \in Threads |-> 0]
    /\ wake = [t \in Threads |-> 0]
    /\ grants = <<>>
    /\ started = 0

FunctionsParked ==
    /\ title = <<>>
    /\ video_info = NoneInfo
    /\ metadata = NoMetadata
    /\ cover = NoCover
    /\ fpc = "parked"

PipelineParked ==
    /\ track_counters = <<>>
    /\ ppc = "parked"
    /\ entries = <<>>
    /\ idx = 1
    /\ success_count = 0
    /\ rets = <<>>
    /\ finished = "none"
    /\ events = <<>>
    /\ last = NoAssignment
    /\ issued = <<>>
    /\ ops = 0

\* Lines 390-394: the constructor stores its arguments unchecked.
MaxCallsValues == {-1, 0} \cup (1..MaxMaxCalls)
PeriodValues == 1..MaxPeriod

RateLimiterInit ==
    /\ max_calls \in MaxCallsValues
    /\ period \in PeriodValues
    /\ calls = <<>>
    /\ lock = NoThread
    /\ clock = 0
    /\ pc = [t \in Threads |-> "idle"]
    /\ now = [t \in Threads |-> 0]
    /\ wake = [t \in Threads |-> 0]
    /\ grants = <<>>
    /\ started = 0

\* A caller invokes acquire() and reaches `with self.lock:`.
Call(t) ==
    /\ pc[t] = "idle"
    /\ started < MaxAcquires
    /\ started' = started + 1
    /\ pc' = [pc EXCEPT ![t] = "enter"]
    /\ UNCHANGED <<max_calls, period, calls, lock, clock, now, wake, grants>>
    /\ UNCHANGED <<funVars, pipVars>>

\* Line 397: the lock is taken when it is free.
Lock(t) ==
    /\ pc[t] = "enter"
    /\ lock = NoThread
    /\ lock' = t
    /\ pc' = [pc EXCEPT ![t] = "locked"]
    /\ UNCHANGED <<max_calls, period, calls, clock, now, wake, grants, started>>
    /\ UNCHANGED <<funVars, pipVars>>

\* Lines 398-404 up to the sleep: read the clock, evict, decide the wait.
\* calls[0] on an empty list raises IndexError; the with-statement then
\* releases the lock and the exception leaves acquire().
Check(t) ==
    /\ pc[t] = "locked"
    /\ LET n == clock
           cs == Evict(calls, n, period)
       IN /\ now' = [now EXCEPT ![t] = n]
          /\ calls' = cs
          /\ IF Len(cs) >= max_calls
               THEN IF cs = <<>>
                      THEN /\ pc' = [pc EXCEPT ![t] = "raised"]
                           /\ lock' = LockAfterExit(t)
                           /\ wake' = [wake EXCEPT ![t] = n]
                      ELSE /\ lock' = lock
                           /\ IF SleepTime(cs, n, period) > 0
                                THEN /\ pc' = [pc EXCEPT ![t] = "sleep"]
                                     /\ wake' = [wake EXCEPT
                                                   ![t] = n + SleepTime(cs, n, period)]
                                ELSE /\ pc' = [pc EXCEPT ![t] = "append"]
                                     /\ wake' = [wake EXCEPT ![t] = n]
               ELSE /\ pc' = [pc EXCEPT ![t] = "append"]
                    /\ lock' = lock
                    /\ wake' = [wake EXCEPT ![t] = n]
    /\ UNCHANGED <<max_calls, period, clock, grants, started>>
    /\ UNCHANGED <<funVars, pipVars>>

\* Line 404: time.sleep(sleep_time) returns once at least sleep_time has passed.
Wake(t) ==
    /\ pc[t] = "sleep"
    /\ clock >= wake[t]
    /\ pc' = [pc EXCEPT ![t] = "append"]
    /\ UNCHANGED <<max_calls, period, calls, lock, clock, now, wake, grants, started>>
    /\ UNCHANGED <<funVars, pipVars>>

\* Line 405 and the end of the with-block.
Grant(t) ==
    /\ pc[t] = "append"
    /\ calls' = Append(calls, GrantStamp(t))
    /\ grants' = Append(grants, GrantStamp(t))
    /\ lock' = LockAfterExit(t)
    /\ pc' = [pc EXCEPT ![t] = "idle"]
    /\ UNCHANGED <<max_calls, period, clock, now, wake, started>>
    /\ UNCHANGED <<funVars, pipVars>>

\* Time passes. Free-running time is capped at MaxTime; time a sleeper is
\* waiting for always passes.
Tick ==
    /\ \/ clock < MaxTime
       \/ \E t \in Threads : pc[t] = "sleep" /\ wake[t] > clock
    /\ clock' = clock + 1
    /\ UNCHANGED <<max_calls, period, calls, lock, pc, now, wake, grants, started>>
    /\ UNCHANGED <<funVars, pipVars>>

LimiterStep(t) == Check(t) \/ Wake(t) \/ Grant(t)

LimiterNext ==
    \/ \E t \in Threads : Call(t)
    \/ \E t \in Threads : Lock(t)
    \/ \E t \in Threads : Check(t)
    \/ \E t \in Threads : Wake(t)
    \/ \E t \in Threads : Grant(t)
    \/ Tick

LimiterInit == RateLimiterInit /\ FunctionsParked /\ PipelineParked

LimiterSpec == LimiterInit /\ [][LimiterNext]_vars

\* The lock is granted fairly, running threads keep running, time passes.
LimiterFairSpec ==
    /\ LimiterSpec
    /\ WF_vars(Tick)
    /\ \A t \in Threads : WF_vars(LimiterStep(t)) /\ SF_vars(Lock(t))

(***************************************************************************)
(* Strings are sequences of one-character strings.  Characters outside     *)
(* ASCII are written as named tokens.                                      *)
(***************************************************************************)
Bullet == "BULLET"          \* U+2022, the separator of 'Album . name . year'
AAcute == "a_acute"         \* U+00E1, as in 'album' written with an accent
Newline == "\n"

LowerLetters ==
    <<"a", "b", "c", "d", "e", "f", "g", "h", "i", "j", "k", "l", "m",
      "n", "o", "p", "q", "r", "s", "t", "u", "v", "w", "x", "y", "z">>
UpperLetters ==
    <<"A", "B", "C", "D", "E", "F", "G", "H", "I", "J", "K", "L", "M",
      "N", "O", "P", "Q", "R", "S", "T", "U", "V", "W", "X", "Y", "Z">>
DigitChars == {"0", "1", "2", "3", "4", "5", "6", "7", "8", "9"}
DigitSeq == <<"0", "1", "2", "3", "4", "5", "6", "7", "8", "9">>

Range(f) == {f[i] : i \in DOMAIN f}

IsDigit(c) == c \in DigitChars
IsSpace(c) == c \in {" ", Newline, "\t"}
IsWord(c) == c \in DigitChars \cup Range(LowerLetters) \cup Range(UpperLetters)
                      \cup {"_", AAcute}

\* re.IGNORECASE compares characters after case folding.
Lower(c) ==
    IF c \in Range(UpperLetters)
      THEN LowerLetters[CHOOSE i \in 1..Len(UpperLetters) : UpperLetters[i] = c]
      ELSE c

\* str.strip()
RECURSIVE LStrip(_)
LStrip(s) == IF s # <<>> /\ IsSpace(Head(s)) THEN LStrip(Tail(s)) ELSE s
RECURSIVE RStrip(_)
RStrip(s) ==
    IF s # <<>> /\ IsSpace(s[Len(s)]) THEN RStrip(SubSeq(s, 1, Len(s) - 1)) ELSE s
Strip(s) == RStrip(LStrip(s))

\* Line 87: re.sub(r'^\W+|\W+$', '', potential_album)
RECURSIVE LStripNonWord(_)
LStripNonWord(s) ==
    IF s # <<>> /\ ~IsWord(Head(s)) THEN LStripNonWord(Tail(s)) ELSE s
RECURSIVE RStripNonWord(_)
RStripNonWord(s) ==
    IF s # <<>> /\ ~IsWord(s[Len(s)])
      THEN RStripNonWord(SubSeq(s, 1, Len(s) - 1))
      ELSE s
StripNonWord(s) == RStripNonWord(LStripNonWord(s))

\* str(n) for a natural number n (line 272, line 159).
RECURSIVE IntToStr(_)
IntToStr(n) ==
    IF n < 10 THEN <<DigitSeq[n + 1]>>
              ELSE Append(IntToStr(n \div 10), DigitSeq[(n % 10) + 1])

(***************************************************************************)
(* Python's re module: a backtracking matcher.  M returns every way the    *)
(* expression can match at position i, in the order backtracking tries     *)
(* them; the first element is the match re.match/re.search reports.        *)
(***************************************************************************)
Unbounded == 0 - 1

Chr(c) == [t |-> "chr", c |-> c]
Cls(k) == [t |-> "cls", k |-> k]
OneOf(S) == [t |-> "set", s |-> S]
Cat(rs) == [t |-> "cat", rs |-> rs]
Alt(rs) == [t |-> "alt", rs |-> rs]
Rep(r, lo, hi, greedy) == [t |-> "rep", r |-> r, lo |-> lo, hi |-> hi, greedy |-> greedy]
Grp(n, r) == [t |-> "grp", n |-> n, r |-> r]
Bol == [t |-> "bol"]
Eol == [t |-> "eol"]
Wb == [t |-> "wb"]
Lit(str) == Cat([i \in 1..Len(str) |-> Chr(str[i])])

Spaces0 == Rep(Cls("space"), 0, Unbounded, TRUE)      \* \s*
Spaces1 == Rep(Cls("space"), 1, Unbounded, TRUE)      \* \s+
AnyLazy == Rep(Cls("any"), 1, Unbounded, FALSE)       \* .+?
AnyGreedy == Rep(Cls("any"), 1, Unbounded, TRUE)      \* .+

NoCaps == <<<<0, 0>>, <<0, 0>>>>
NoFlags == [ic |-> FALSE, ml |-> FALSE]
IgnoreCase == [ic |-> TRUE, ml |-> FALSE]
IgnoreCaseMultiline == [ic |-> TRUE, ml |-> TRUE]

CharEq(a, b, ic) == IF ic THEN Lower(a) = Lower(b) ELSE a = b

InClass(c, k) ==
    CASE k = "any" -> c # Newline
      [] k = "space" -> IsSpace(c)
      [] k = "digit" -> IsDigit(c)
      [] k = "nonword" -> ~IsWord(c)

WordAt(s, i) == i >= 1 /\ i <= Len(s) /\ IsWord(s[i])

\* Group n spans from i to the end of each way xs its body matched.
Captured(xs, n, i) ==
    [j \in 1..Len(xs) |->
        [i |-> xs[j].i, caps |-> [xs[j].caps EXCEPT ![n] = <<i, xs[j].i>>]]]

RECURSIVE M(_, _, _, _, _)
RECURSIVE MCat(_, _, _, _, _, _)
RECURSIVE ThenCat(_, _, _, _, _, _)
RECURSIVE MAlt(_, _, _, _, _, _)
RECURSIVE MRep(_, _, _, _, _, _)
RECURSIVE ThenRep(_, _, _, _, _, _, _)

MCat(rs, k, s, i, caps, fl) ==
    IF k > Len(rs) THEN <<[i |-> i, caps |-> caps]>>
    ELSE ThenCat(M(rs[k], s, i, caps, fl), 1, rs, k, s, fl)

ThenCat(xs, j, rs, k, s, fl) ==
    IF j > Len(xs) THEN <<>>
    ELSE MCat(rs, k + 1, s, xs[j].i, xs[j].caps, fl) \o ThenCat(xs, j + 1, rs, k, s, fl)

MAlt(rs, k, s, i, caps, fl) ==
    IF k > Len(rs) THEN <<>>
    ELSE M(rs[k], s, i, caps, fl) \o MAlt(rs, k + 1, s, i, caps, fl)

MRep(re, n, s, i, caps, fl) ==
    LET stop == IF n >= re.lo THEN <<[i |-> i, caps |-> caps]>> ELSE <<>>
        more == IF re.hi = Unbounded \/ n < re.hi
                  THEN ThenRep(M(re.r, s, i, caps, fl), 1, re, n, s, i, fl)
                  ELSE <<>>
    IN IF re.greedy THEN more \o stop ELSE stop \o more

ThenRep(xs, j, re, n, s, i0, fl) ==
    IF j > Len(xs) THEN <<>>
    ELSE (IF xs[j].i > i0 THEN MRep(re, n + 1, s, xs[j].i, xs[j].caps, fl) ELSE <<>>)
            \o ThenRep(xs, j + 1, re, n, s, i0, fl)

M(re, s, i, caps, fl) ==
    LET here == <<[i |-> i, caps |-> caps]>>
        next == <<[i |-> i + 1, caps |-> caps]>>
    IN CASE re.t = "chr" ->
              IF i <= Len(s) /\ CharEq(s[i], re.c, fl.ic) THEN next ELSE <<>>
         [] re.t = "cls" ->
              IF i <= Len(s) /\ InClass(s[i], re.k) THEN next ELSE <<>>
         [] re.t = "set" ->
              IF i <= Len(s) /\ s[i] \in re.s THEN next ELSE <<>>
         [] re.t = "cat" -> MCat(re.rs, 1, s, i, caps, fl)
         [] re.t = "alt" -> MAlt(re.rs, 1, s, i, caps, fl)
         [] re.t = "rep" -> MRep(re, 0, s, i, caps, fl)
         [] re.t = "grp" -> Captured(M(re.r, s, i, caps, fl), re.n, i)
         [] re.t = "bol" ->
              IF i = 1 \/ (fl.ml /\ i > 1 /\ s[i - 1] = Newline) THEN here ELSE <<>>
         [] re.t = "eol" ->
              IF \/ i = Len(s) + 1
                 \/ (i = Len(s) /\ s[i] = Newline)
                 \/ (fl.ml /\ i <= Len(s) /\ s[i] = Newline)
                THEN here ELSE <<>>
         [] re.t = "wb" ->
              IF WordAt(s, i - 1) # WordAt(s, i) THEN here ELSE <<>>

NoMatch == [found |-> FALSE, caps |-> NoCaps]

\* The match object of the first way to match, None when there is none.
FirstMatch(xs) ==
    IF xs = <<>> THEN NoMatch ELSE [found |-> TRUE, caps |-> xs[1].caps]

\* re.match: the expression must match at the start of the string.
ReMatch(re, s, fl) == FirstMatch(M(re, s, 1, NoCaps, fl))

\* re.search: the leftmost position at which the expression matches.
RECURSIVE SearchFrom(_, _, _, _)
RECURSIVE SearchAt(_, _, _, _, _)
SearchAt(xs, re, s, p, fl) ==
    IF xs = <<>> THEN SearchFrom(re, s, p + 1, fl) ELSE FirstMatch(xs)
SearchFrom(re, s, p, fl) ==
    IF p > Len(s) + 1 THEN NoMatch
    ELSE SearchAt(M(re, s, p, NoCaps, fl), re, s, p, fl)
ReSearch(re, s, fl) == SearchFrom(re, s, 1, fl)

\* match.group(n)
Group(m, s, n) == SubSeq(s, m.caps[n][1], m.caps[n][2] - 1)

(***************************************************************************)
(* extract_metadata_from_title (lines 34-122).                             *)
(***************************************************************************)
W_Album == <<"A", "l", "b", "u", "m">>
W_album == <<"a", "l", "b", "u", "m">>
W_aalbum == <<AAcute, "l", "b", "u", "m">>
W_from == <<"f", "r", "o", "m">>
W_off == <<"o", "f", "f">>
W_the == <<"t", "h", "e">>
W_by == <<"b", "y">>
W_Single == <<"S", "i", "n", "g", "l", "e">>
W_UnknownArtist == <<"U", "n", "k", "n", "o", "w", "n", " ", "A", "r", "t", "i", "s", "t">>
Quotes == {"\"", "'"}
Digits4 == Rep(Cls("digit"), 4, 4, TRUE)               \* \d{4}
LineEnd == Alt(<<Chr(Newline), Eol>>)                  \* (?:\n|$)

\* Line 42
album_fields == <<"album", "album_title", "music_album", "music_album_title">>

\* Lines 50-53
year_fields ==
    <<"release_year", "release_date", "original_year", "year",
      "music_release_year", "music_release_date">>

\* Line 58: r'\b(\d{4})\b'
YearFieldRe == Cat(<<Wb, Grp(1, Digits4), Wb>>)

\* Line 67: r'Album\s*.\s*(.+?)\s*.\s*(\d{4})' with U+2022 separators
AlbumYearRe ==
    Cat(<<Lit(W_Album), Spaces0, Chr(Bullet), Spaces0, Grp(1, AnyLazy),
          Spaces0, Chr(Bullet), Spaces0, Grp(2, Digits4)>>)

\* Line 74: r'Album\s*.\s*(\d{4})'
AlbumShortRe ==
    Cat(<<Lit(W_Album), Spaces0, Chr(Bullet), Spaces0, Grp(1, Digits4)>>)

\* Lines 77-82
album_patterns ==
    <<Cat(<<Alt(<<Lit(W_album), Lit(W_from), Lit(W_off)>>), Spaces0,
            OneOf({":", "-"}), Spaces0, Grp(1, AnyLazy), LineEnd>>),
      Cat(<<Alt(<<Lit(W_aalbum), Lit(W_album)>>), Chr(":"), Spaces0,
            Grp(1, AnyLazy), LineEnd>>),
      Cat(<<Lit(W_from), Spaces1, Lit(W_the), Spaces1, Lit(W_album), Spaces1,
            OneOf(Quotes), Grp(1, AnyLazy), OneOf(Quotes)>>),
      Cat(<<Lit(W_off), Spaces1, Lit(W_the), Spaces1, Lit(W_album), Spaces1,
            OneOf(Quotes), Grp(1, AnyLazy), OneOf(Quotes)>>)>>

\* Lines 100-105; `by` is the test `"by" in pattern` of line 109, which
\* reads the pattern's text.
patterns ==
    <<[re |-> Cat(<<Bol, Grp(1, AnyLazy), Spaces0, Chr("-"), Spaces0,
                    Grp(2, AnyGreedy), Eol>>), by |-> FALSE],
      [re |-> Cat(<<Bol, Grp(1, AnyLazy), Spaces0, Chr(":"), Spaces0,
                    Grp(2, AnyGreedy), Eol>>), by |-> FALSE],
      [re |-> Cat(<<Bol, Grp(1, AnyLazy), Spaces1, Lit(W_by), Spaces1,
                    Grp(2, AnyGreedy), Eol>>), by |-> TRUE],
      [re |-> Cat(<<Bol, Grp(1, AnyLazy), Spaces0, Chr("|"), Spaces0,
                    Grp(2, AnyGreedy), Eol>>), by |-> FALSE]>>

\* A video_info is a mapping from keys to values, or None.
IsNone(vi) == "none" \in DOMAIN vi
Has(vi, k) == k \in DOMAIN vi
Get(vi, k, d) == IF k \in DOMAIN vi THEN vi[k] ELSE d
\* `if video_info`: None and the empty mapping are false.
Truthy(vi) == ~IsNone(vi) /\ DOMAIN vi # {}

\* Lines 43-47: the first album field holding a string that is not blank.
RECURSIVE AlbumFromTags(_, _)
AlbumFromTags(vi, k) ==
    IF k > Len(album_fields) THEN <<>>
    ELSE LET album_value == Get(vi, album_fields[k], <<>>)
         IN IF album_value # <<>> /\ Strip(album_value) # <<>>
              THEN Strip(album_value)
              ELSE AlbumFromTags(vi, k + 1)

\* Lines 54-61: the first year field whose text the expression matches.
RECURSIVE YearFromTags(_, _)
RECURSIVE YearFromField(_, _, _)
YearFromField(match, vi, k) ==
    LET value == Get(vi, year_fields[k], <<>>)
    IN IF value # <<>> /\ match.found
         THEN Group(match, value, 1)
         ELSE YearFromTags(vi, k + 1)
YearFromTags(vi, k) ==
    IF k > Len(year_fields) THEN <<>>
    ELSE YearFromField(ReSearch(YearFieldRe, Get(vi, year_fields[k], <<>>), NoFlags),
                       vi, k)

\* Lines 83-91: the first album pattern whose cleaned capture has a length
\* strictly between 2 and 100.
RECURSIVE AlbumFromText(_, _)
RECURSIVE AlbumFromPattern(_, _, _)
RECURSIVE AlbumCandidate(_, _, _)
AlbumCandidate(potential_album, description, k) ==
    IF 2 < Len(potential_album) /\ Len(potential_album) < 100
      THEN potential_album
      ELSE AlbumFromText(description, k + 1)
AlbumFromPattern(match, description, k) ==
    IF match.found
      THEN AlbumCandidate(StripNonWord(Strip(Group(match, description, 1))),
                          description, k)
      ELSE AlbumFromText(description, k + 1)
AlbumFromText(description, k) ==
    IF k > Len(album_patterns) THEN <<>>
    ELSE AlbumFromPattern(ReSearch(album_patterns[k], description, IgnoreCaseMultiline),
                          description, k)

\* Lines 67-91: what the description adds to album and year.
FromMarkers(album_year_match, album_short_match, album, year, description) ==
    IF album_year_match.found
      THEN [album |-> IF album = <<>>
                        THEN Strip(Group(album_year_match, description, 1))
                        ELSE album,
            year |-> IF year = <<>>
                       THEN Group(album_year_match, description, 2)
                       ELSE year]
      ELSE [album |-> IF album = <<>> THEN AlbumFromText(description, 1) ELSE album,
            year |-> IF album_short_match.found /\ year = <<>>
                       THEN Group(album_short_match, description, 1)
                       ELSE year]

\* Lines 65-66: the description is read only if album or year is missing.
FromDescription(album, year, description) ==
    IF album # <<>> /\ year # <<>> THEN [album |-> album, year |-> year]
    ELSE FromMarkers(ReSearch(AlbumYearRe, description, NoFlags),
                     ReSearch(AlbumShortRe, description, NoFlags),
                     album, year, description)

\* Lines 93-97: the upload year.
UploadYear(year, vi) ==
    LET upload_date == Get(vi, "upload_date", <<>>)
    IN IF year = <<>> /\ Truthy(vi) /\ upload_date # <<>> /\ Len(upload_date) >= 4
         THEN SubSeq(upload_date, 1, 4)
         ELSE year

\* Lines 106-115: the first title pattern that matches decides artist and
\* song, also when a stripped capture is empty.
RECURSIVE FromTitle(_, _)
RECURSIVE TitleSplit(_, _, _)
TitleSplit(match, ttl, k) ==
    IF match.found
      THEN IF patterns[k].by
             THEN [artist |-> Strip(Group(match, ttl, 2)),
                   song |-> Strip(Group(match, ttl, 1))]
             ELSE [artist |-> Strip(Group(match, ttl, 1)),
                   song |-> Strip(Group(match, ttl, 2))]
      ELSE FromTitle(ttl, k + 1)
FromTitle(ttl, k) ==
    IF k > Len(patterns) THEN [artist |-> <<>>, song |-> <<>>]
    ELSE TitleSplit(ReMatch(patterns[k].re, ttl, IgnoreCase), ttl, k)

Raised(exc) == [raised |-> TRUE, exc |-> exc]
Returned(md) == [raised |-> FALSE, md |-> md]

\* Lines 117-122: the fallbacks and the returned record; desc is album and
\* year after the description rules, ts is artist and song from the title.
Assemble(desc, ts, ttl, vi) ==
    LET uploader == Get(vi, "uploader", <<>>)
    IN Returned([artist |-> IF ts.artist # <<>> THEN ts.artist
                            ELSE IF uploader # <<>> THEN uploader
                            ELSE W_UnknownArtist,
                 song |-> IF ts.song # <<>> THEN ts.song ELSE ttl,
                 album |-> desc.album,
                 track |-> <<>>,
                 year |-> UploadYear(desc.year, vi)])

\* Lines 38-39 accept video_info = None; line 44 calls video_info.get on it.
extract_metadata_from_title(ttl, vi) ==
    IF IsNone(vi) THEN Raised("AttributeError")
    ELSE Assemble(FromDescription(AlbumFromTags(vi, 1), YearFromTags(vi, 1),
                                  Get(vi, "description", <<>>)),
                  FromTitle(ttl, 1), ttl, vi)

(***************************************************************************)
(* The extractor on its own: every input of the bounded sets below is      *)
(* passed to extract_metadata_from_title once.                             *)
(***************************************************************************)
StringsUpTo(A, n) == UNION {[1..k -> A] : k \in 0..n}
Opt(k, V) == {<<>>} \cup {k :> v : v \in V}

TitleAlphabet == {"a", " ", "-"}
SpecialTitles ==
    {<<"a", " ", "b", "y", " ", "b">>,
     <<"a", ":", " ", "b">>,
     <<"a", " ", "|", " ", "b">>,
     <<"a", " ", "-", " ", "b", Newline>>,
     <<"b", " ", "B", "Y", " ", "a", " ", "-", " ", "c">>}
Titles == StringsUpTo(TitleAlphabet, MaxTitleLen) \cup SpecialTitles
CoreTitles == {<<>>, <<"a", "-", "b">>}

YearAlphabet == {"1", "9", "-"}
YearStrings == StringsUpTo(YearAlphabet, MaxYearLen) \cup {<<"2", "0", "2", "0", "0", "1", "1", "5">>}
Descriptions ==
    {<<"A", "l", "b", "u", "m", " ", Bullet, " ", "g", "h", " ", Bullet, " ", "1", "9", "9", "9">>,
     <<"A", "l", "b", "u", "m", " ", Bullet, " ", "1", "9", "9", "8">>,
     <<"a", "l", "b", "u", "m", ":", " ", "x", "y", "z", Newline, "m", "o", "r", "e">>,
     <<"f", "r", "o", "m", " ", "t", "h", "e", " ", "a", "l", "b", "u", "m", " ", "'", "a", "b", "c", "'">>,
     <<"o", "f", "f", " ", "t", "h", "e", " ", "a", "l", "b", "u", "m", " ", "'", "a", "b", "'">>,
     <<"A", "l", "b", "u", "m", " ", Bullet, " ", Bullet, " ", "1", "9", "9", "9">>}

UploaderInfos == Opt("uploader", {<<>>, <<"u", "p">>})
YearInfos ==
    {rd @@ y @@ ud @@ ds :
        rd \in Opt("release_date", YearStrings),
        y \in Opt("year", {<<"1", "9", "9", "9">>}),
        ud \in Opt("upload_date", {<<"2", "0", "2", "1", "0", "3", "0", "1">>}),
        ds \in Opt("description", {<<"A", "l", "b", "u", "m", " ", Bullet, " ", "1", "9", "9", "8">>})}
TextInfos ==
    {ds @@ al @@ at :
        ds \in Opt("description", Descriptions),
        al \in Opt("album", {<<" ">>, <<" ", "a", "l", " ">>}),
        at \in Opt("album_title", {<<"X">>})}

ExtractInputs ==
    (Titles \X (UploaderInfos \cup {NoneInfo}))
        \cup (CoreTitles \X (YearInfos \cup TextInfos))

ExtractInit ==
    /\ RateLimiterParked
    /\ PipelineParked
    /\ \E inp \in ExtractInputs : title = inp[1] /\ video_info = inp[2]
    /\ metadata = NoMetadata
    /\ cover = NoCover
    /\ fpc = "ready"

Extract ==
    /\ fpc = "ready"
    /\ metadata' = extract_metadata_from_title(title, video_info)
    /\ fpc' = "done"
    /\ UNCHANGED <<title, video_info, cover, limVars, pipVars>>

ExtractNext == Extract

ExtractSpec == ExtractInit /\ [][ExtractNext]_vars

\* C3: the call returns a record for every title and for video_info that
\* is None or lacks any of the optional keys; it never raises.
C3_NeverRaises == fpc = "done" => ~metadata.raised

\* C4: the returned record's song and artist are both non-empty.
C4_SongArtistNonEmpty ==
    (fpc = "done" /\ ~metadata.raised) =>
        metadata.md.song # <<>> /\ metadata.md.artist # <<>>

\* The year C9 claims: the first run of 4 digits found anywhere in the
\* first year field (in the order of year_fields) that contains one.
RECURSIVE C9_ClaimedYear(_, _)
RECURSIVE C9_RunIn(_, _, _)
C9_RunIn(run, vi, k) ==
    IF run.found THEN Group(run, Get(vi, year_fields[k], <<>>), 1)
                 ELSE C9_ClaimedYear(vi, k + 1)
C9_ClaimedYear(vi, k) ==
    IF k > Len(year_fields) THEN <<>>
    ELSE C9_RunIn(ReSearch(Grp(1, Digits4), Get(vi, year_fields[k], <<>>), NoFlags),
                  vi, k)

\* C9: year is the first run of 4 digits found anywhere in the first year
\* field that contains one; the description and upload-date rules decide
\* the year only when no field contains such a run.
C9_YearFromFirstDigitRun ==
    (fpc = "done" /\ ~metadata.raised /\ C9_ClaimedYear(video_info, 1) # <<>>) =>
        metadata.md.year = C9_ClaimedYear(video_info, 1)

(***************************************************************************)
(* acquire() as the sequential pipeline runs it on youtube_rate_limiter:   *)
(* one caller, so the lock is free, and the sleep ends when it is due.     *)
(***************************************************************************)
acquire(cs, clk) ==
    LET kept == Evict(cs, clk, period)
        sleep_time == IF Len(kept) >= max_calls /\ kept # <<>>
                        THEN SleepTime(kept, clk, period)
                        ELSE 0
        woke == IF sleep_time > 0 THEN clk + sleep_time ELSE clk
    IN [calls |-> Append(kept, woke), clock |-> woke]

(***************************************************************************)
(* download_cover_art (lines 171-203).                                     *)
(***************************************************************************)

\* Lines 183-185: thumb.get('width', 0) * thumb.get('height', 0)
Resolution(thumb) == Get(thumb, "width", 0) * Get(thumb, "height", 0)

\* Lines 179-189: the scan; best is an index into thumbnails, 0 for None.
RECURSIVE ScanThumbnails(_, _, _, _)
ScanThumbnails(thumbnails, k, best_thumbnail, max_resolution) ==
    IF k > Len(thumbnails) THEN best_thumbnail
    ELSE IF Resolution(thumbnails[k]) > max_resolution
           THEN ScanThumbnails(thumbnails, k + 1, k, Resolution(thumbnails[k]))
           ELSE ScanThumbnails(thumbnails, k + 1, best_thumbnail, max_resolution)

BestThumbnail(thumbnails) == ScanThumbnails(thumbnails, 1, 0, 0)

\* The whole function.  response is what requests.get does: "200", another
\* status, or "exception".  A None video_info raises inside the try block
\* and is caught (line 200).
download_cover_art(vi, response, cs, clk) ==
    LET thumbnails == Get(vi, "thumbnails", <<>>)
        best == BestThumbnail(thumbnails)
        quiet == [result |-> "None", best |-> 0, fetched |-> FALSE,
                  events |-> <<>>, calls |-> cs, clock |-> clk]
        acq == acquire(cs, clk)
    IN IF IsNone(vi) \/ thumbnails = <<>> THEN quiet
       ELSE IF best = 0 \/ Get(thumbnails[best], "url", <<>>) = <<>>
         THEN [quiet EXCEPT !.best = best]
         ELSE [result |-> IF response = "200" THEN "content" ELSE "None",
               best |-> best,
               fetched |-> TRUE,
               events |-> <<"acquire", "thumbnail">>,
               calls |-> acq.calls,
               clock |-> acq.clock]

Responses == {"200", "404", "exception"}

\* Thumbnail descriptors with any of url, width, height missing.
Thumbs ==
    {u @@ w @@ h :
        u \in Opt("url", {<<"u">>}),
        w \in Opt("width", {1, 2}),
        h \in Opt("height", {1, 2})}
ThumbLists == UNION {[1..k -> Thumbs] : k \in 0..MaxThumbs}
CoverInfos == {<<>>} \cup {"thumbnails" :> ths : ths \in ThumbLists}

CoverInit ==
    /\ RateLimiterParked
    /\ PipelineParked
    /\ title = <<>>
    /\ video_info \in CoverInfos
    /\ metadata = NoMetadata
    /\ cover = NoCover
    /\ fpc = "ready"

DownloadCoverArt ==
    /\ fpc = "ready"
    /\ \E response \in Responses :
          \E r \in {download_cover_art(video_info, response, calls, clock)} :
             /\ cover' = [result |-> r.result, best |-> r.best, fetched |-> r.fetched]
             /\ calls' = r.calls
             /\ clock' = r.clock
    /\ fpc' = "done"
    /\ UNCHANGED <<title, video_info, metadata, pipVars>>
    /\ UNCHANGED <<max_calls, period, lock, pc, now, wake, grants, started>>

CoverNext == DownloadCoverArt

CoverSpec == CoverInit /\ [][CoverNext]_vars

\* The entry C10 claims is chosen: the first one, in list order, whose
\* width*height is maximal over the whole list.
C10_FirstMaximal(thumbnails) ==
    CHOOSE k \in 1..Len(thumbnails) :
        /\ \A j \in 1..Len(thumbnails) : Resolution(thumbnails[j]) <= Resolution(thumbnails[k])
        /\ \A j \in 1..(k - 1) : Resolution(thumbnails[j]) < Resolution(thumbnails[k])

\* C10: for a non-empty thumbnails list the entry fetched is the first one
\* of maximal width*height, and nothing is returned without a fetch only
\* when that entry has no url.
C10_StableMaximum ==
    (fpc = "done" /\ Get(video_info, "thumbnails", <<>>) # <<>>) =>
        LET thumbnails == video_info["thumbnails"]
            k == C10_FirstMaximal(thumbnails)
        IN /\ (cover.fetched => cover.best = k)
           /\ (~cover.fetched => Get(thumbnails[k], "url", <<>>) = <<>>)

(***************************************************************************)
(* Track numbering and the download pipeline (lines 124-169, 250-374).     *)
(***************************************************************************)

\* Python's `a or b` on strings.
Or(a, b) == IF a # <<>> THEN a ELSE b

\* Lines 153 and 267: f"{artist}_{album}"
album_key(artist, album) == artist \o <<"_">> \o album

\* Lines 154-157 and 268-271.
NextTrack(tc, key) ==
    IF key \in DOMAIN tc THEN [tc EXCEPT ![key] = @ + 1] ELSE tc @@ (key :> 1)

\* upload_date[:4]
Prefix4(s) == SubSeq(s, 1, IF Len(s) < 4 THEN Len(s) ELSE 4)

\* Lines 265-274: album default, track number and year of a non-interactive
\* download, from the extracted record md.
BulkRecord(md, vi, tc) ==
    LET album == Or(md.album, W_Single)
        key == album_key(md.artist, album)
        counters == NextTrack(tc, key)
    IN [md |-> [artist |-> md.artist,
                song |-> md.song,
                album |-> album,
                track |-> IntToStr(counters[key]),
                year |-> Or(md.year, Prefix4(Get(vi, "upload_date", <<>>)))],
        assigned |-> IntToStr(counters[key]),
        track_counters |-> counters]

\* Lines 264-274: the metadata of a non-interactive download.
bulk_metadata(vi, tc) ==
    BulkRecord(extract_metadata_from_title(Get(vi, "title", <<>>), vi).md, vi, tc)

\* Lines 136-169: the prompts; inp holds what the user types at each one,
\* auto_meta the suggestions.
PromptRecord(auto_meta, vi, inp, tc) ==
    LET artist == Or(Strip(inp.artist), auto_meta.artist)
        song == Or(Strip(inp.song), auto_meta.song)
        album == Or(Strip(inp.album), Or(auto_meta.album, W_Single))
        key == album_key(artist, album)
        counters == NextTrack(tc, key)
        suggested_track == IntToStr(counters[key])
        year_suggestion == Or(auto_meta.year, Prefix4(Get(vi, "upload_date", <<>>)))
    IN [md |-> [artist |-> artist,
                song |-> song,
                album |-> album,
                track |-> Or(Strip(inp.track), suggested_track),
                year |-> Or(Strip(inp.year), year_suggestion)],
        assigned |-> suggested_track,
        track_counters |-> counters]

\* Lines 124-169.
get_user_metadata(vi, inp, tc) ==
    PromptRecord(extract_metadata_from_title(Get(vi, "title", <<>>), vi).md, vi, inp, tc)

\* Lines 276-302: after the metadata is settled: cover art, the media
\* download (no acquire() precedes ydl.download at line 293), the check
\* that the mp3 file exists.
AfterInfo(meta, cover_art, env) ==
    [ret |-> env.dl_ok /\ env.exists,
     numbered |-> TRUE,
     md |-> meta.md,
     assigned |-> meta.assigned,
     track_counters |-> meta.track_counters,
     events |-> <<"acquire", "extract_info">> \o cover_art.events \o <<"download">>,
     calls |-> cover_art.calls,
     clock |-> cover_art.clock]

\* Lines 250-306.  env is what the collaborators do during this call:
\* whether the info lookup succeeds and with which video_info, what the
\* user types, the thumbnail response, whether the media download succeeds
\* and whether the mp3 file exists afterwards.  Every exception is caught
\* at line 304 and turns into False.
download_video(env, interactive, tc, cs, clk) ==
    LET looked == acquire(cs, clk)
    IN IF ~env.info_ok
         THEN [ret |-> FALSE,
               numbered |-> FALSE,
               md |-> <<>>,
               assigned |-> <<>>,
               track_counters |-> tc,
               events |-> <<"acquire", "extract_info">>,
               calls |-> looked.calls,
               clock |-> looked.clock]
         ELSE AfterInfo(IF interactive THEN get_user_metadata(env.vi, env.inp, tc)
                                       ELSE bulk_metadata(env.vi, tc),
                        download_cover_art(env.vi, env.response,
                                           looked.calls, looked.clock),
                        env)

\* The inputs of the pipeline.  The thumbnail response matters only for a
\* video_info that has a thumbnail to fetch.
PlainInfos ==
    {t @@ al :
        t \in {"title" :> <<"a", "_", "b", "-", "s">>, "title" :> <<"a", "-", "s">>},
        al \in {"album" :> <<"c">>, "album" :> <<"b", "_", "c">>}}
ThumbInfos ==
    {("title" :> <<"a", "-", "s">>)
        @@ ("thumbnails" :> <<[url |-> <<"u">>, width |-> 1, height |-> 1]>>)}
PipelineInfos == PlainInfos \cup ThumbInfos
NoInput == [artist |-> <<>>, song |-> <<>>, album |-> <<>>, track |-> <<>>, year |-> <<>>]
UserInputs ==
    {[NoInput EXCEPT !.artist = a, !.album = al, !.track = tr] :
        a \in {<<>>, <<"a">>}, al \in {<<>>, <<"b", "_", "c">>}, tr \in {<<>>, <<"7">>}}
Envs(inputs) ==
    {[info_ok |-> FALSE, vi |-> <<>>, inp |-> NoInput, response |-> "200",
      dl_ok |-> FALSE, exists |-> FALSE]}
    \cup [info_ok : {TRUE}, vi : PlainInfos, inp : inputs, response : {"200"},
          dl_ok : BOOLEAN, exists : BOOLEAN]
    \cup [info_ok : {TRUE}, vi : ThumbInfos, inp : inputs, response : Responses,
          dl_ok : BOOLEAN, exists : BOOLEAN]

\* Playlist entries with any of url and id missing (line 332).
Entries == {u @@ i : u \in Opt("url", {<<"u">>}), i \in Opt("id", {<<"i">>})}
EntryLists == UNION {[1..k -> Entries] : k \in 0..MaxEntries}
UrlLists == {[i \in 1..k |-> "url" :> <<"u">>] : k \in 0..MaxEntries}

PipelineInit ==
    /\ RateLimiterParked
    /\ FunctionsParked
    /\ track_counters = <<>>
    /\ ppc = "menu"
    /\ entries = <<>>
    /\ idx = 1
    /\ success_count = 0
    /\ rets = <<>>
    /\ finished = "none"
    /\ events = <<>>
    /\ last = NoAssignment
    /\ issued = <<>>
    /\ ops = 0

\* What one download_video call leaves behind.
Downloaded(r) ==
    /\ track_counters' = r.track_counters
    /\ events' = r.events
    /\ calls' = r.calls
    /\ clock' = r.clock
    /\ IF r.numbered
         THEN LET pair == <<r.md.artist, r.md.album>>
                  count == NextTrack(issued, pair)
              IN /\ issued' = count
                 /\ last' = [artist |-> r.md.artist, album |-> r.md.album,
                             track |-> r.assigned, n |-> count[pair]]
         ELSE UNCHANGED <<issued, last>>
    /\ UNCHANGED <<max_calls, period, lock, pc, now, wake, grants, started, funVars>>

\* Menu choice 1 (lines 354-357): one interactive download.
DownloadSingle ==
    /\ ppc = "menu"
    /\ ops < MaxOps
    /\ ops' = ops + 1
    /\ \E env \in Envs(UserInputs) :
          \E r \in {download_video(env, TRUE, track_counters, calls, clock)} :
              Downloaded(r)
    /\ UNCHANGED <<ppc, entries, idx, success_count, rets, finished>>

\* Menu choice 2, lines 310-330: enumerate the playlist and ask to go on.
PlaylistStart ==
    /\ ppc = "menu"
    /\ ops < MaxOps
    /\ ops' = ops + 1
    /\ \E a \in {acquire(calls, clock)} : calls' = a.calls /\ clock' = a.clock
    /\ events' = <<"acquire", "extract_playlist">>
    /\ \/ /\ finished' = "playlist_error"          \* extract_info raised (line 339)
          /\ UNCHANGED <<ppc, entries, idx, success_count, rets>>
       \/ /\ finished' = "declined"                \* proceed != 'y' (line 328)
          /\ UNCHANGED <<ppc, entries, idx, success_count, rets>>
       \/ /\ entries' \in EntryLists
          /\ ppc' = "playlist"
          /\ idx' = 1
          /\ success_count' = 0
          /\ rets' = <<>>
          /\ finished' = "running"
    /\ UNCHANGED <<track_counters, last, issued, funVars>>
    /\ UNCHANGED <<max_calls, period, lock, pc, now, wake, grants, started>>

\* Lines 331-335: one iteration of the playlist loop.  An entry with no url
\* and no id raises KeyError at line 332, outside download_video's try; the
\* handler of line 339 ends download_playlist.
PlaylistStep ==
    /\ ppc = "playlist"
    /\ idx <= Len(entries)
    /\ IF Get(entries[idx], "url", <<>>) = <<>> /\ ~Has(entries[idx], "id")
         THEN /\ finished' = "playlist_aborted"
              /\ ppc' = "menu"
              /\ events' = <<>>
              /\ UNCHANGED <<idx, success_count, rets, track_counters, last, issued,
                             limVars, funVars>>
         ELSE /\ \E env \in Envs({NoInput}) :
                    \E r \in {download_video(env, FALSE, track_counters, calls, clock)} :
                       /\ Downloaded(r)
                       /\ success_count' = IF r.ret THEN success_count + 1
                                                    ELSE success_count
                       /\ rets' = Append(rets, r.ret)
              /\ idx' = idx + 1
              /\ UNCHANGED <<ppc, finished>>
    /\ UNCHANGED <<entries, ops>>

\* Line 337: the loop is over and the success count is printed.
PlaylistEnd ==
    /\ ppc = "playlist"
    /\ idx > Len(entries)
    /\ finished' = "playlist_reported"
    /\ ppc' = "menu"
    /\ UNCHANGED <<track_counters, entries, idx, success_count, rets, events,
                   last, issued, ops, limVars, funVars>>

\* Menu choice 3, lines 363-367: read the URL file.
BatchStart ==
    /\ ppc = "menu"
    /\ ops < MaxOps
    /\ ops' = ops + 1
    /\ events' = <<>>
    /\ \/ /\ finished' = "file_error"              \* lines 371-374
          /\ UNCHANGED <<ppc, entries, idx, success_count, rets>>
       \/ /\ entries' \in UrlLists
          /\ ppc' = "batch"
          /\ idx' = 1
          /\ success_count' = 0
          /\ rets' = <<>>
          /\ finished' = "running"
    /\ UNCHANGED <<track_counters, last, issued, limVars, funVars>>

\* Lines 368-370: one iteration of the batch loop; the result is dropped.
BatchStep ==
    /\ ppc = "batch"
    /\ idx <= Len(entries)
    /\ \E env \in Envs({NoInput}) :
          \E r \in {download_video(env, FALSE, track_counters, calls, clock)} :
              Downloaded(r) /\ rets' = Append(rets, r.ret)
    /\ idx' = idx + 1
    /\ UNCHANGED <<ppc, entries, success_count, finished, ops>>

BatchEnd ==
    /\ ppc = "batch"
    /\ idx > Len(entries)
    /\ finished' = "batch_done"
    /\ ppc' = "menu"
    /\ UNCHANGED <<track_counters, entries, idx, success_count, rets, events,
                   last, issued, ops, limVars, funVars>>

\* Menu choice 5 (lines 381-383).
Exit ==
    /\ ppc = "menu"
    /\ ppc' = "exited"
    /\ UNCHANGED <<track_counters, entries, idx, success_count, rets, finished,
                   events, last, issued, ops, limVars, funVars>>

PipelineNext ==
    \/ DownloadSingle
    \/ PlaylistStart
    \/ PlaylistStep
    \/ PlaylistEnd
    \/ BatchStart
    \/ BatchStep
    \/ BatchEnd
    \/ Exit

PipelineSpec == PipelineInit /\ [][PipelineNext]_vars

RECURSIVE CountTrue(_)
CountTrue(bs) ==
    IF bs = <<>> THEN 0 ELSE (IF Head(bs) THEN 1 ELSE 0) + CountTrue(Tail(bs))

\* C2: the track number assigned to a video is 1 plus the number of earlier
\* assignments for the same (artist, album) pair; assignments for other
\* pairs never change it.
C2_TrackCountsPerPair == last.n > 0 => last.track = IntToStr(last.n)

\* C5: a playlist or batch run that has ended tried every entry, and the
\* success count a playlist reports is the number of entries whose
\* download_video returned True.
C5_FailuresContained ==
    finished \in {"playlist_reported", "playlist_aborted", "batch_done"} =>
        /\ Len(rets) = Len(entries)
        /\ finished # "playlist_aborted"
        /\ (finished = "playlist_reported" => success_count = CountTrue(rets))

\* C6: every network call of an operation comes right after an acquire()
\* of its own.
C6_AcquireBeforeEveryCall ==
    \A k \in 1..Len(events) :
        events[k] # "acquire" => (k > 1 /\ events[k - 1] = "acquire")

(***************************************************************************)
(* Claims about the RateLimiter.                                           *)
(***************************************************************************)

\* C1: with max_calls >= 1, no window of length period that starts at a
\* grant holds more than max_calls grants, i.e. grant i+max_calls (in
\* timestamp order) is at least period after grant i.
C1_RateBounded ==
    max_calls >= 1 =>
        \A i \in 1..Len(grants) :
            Cardinality({j \in 1..Len(grants) :
                           grants[j] >= grants[i] /\ grants[j] < grants[i] + period})
                <= max_calls

\* Witness of C1: more than max_calls grants were made by both threads and
\* one of them had to wait a full period after grant i.
C1_Witness ==
    /\ max_calls >= 1
    /\ Len(grants) > max_calls
    /\ \E i \in 1..(Len(grants) - max_calls) :
          grants[i + max_calls] = grants[i] + period
    /\ \E t \in Threads : wake[t] > now[t]

\* C7: a limiter with max_calls <= 0 is rejected at construction, so no
\* acquire() ever runs on it.
C7_NonPositiveRejected ==
    max_calls <= 0 => \A t \in Threads : pc[t] = "idle"

\* C8: with max_calls >= 1 and period > 0 every acquire() eventually
\* returns, and the wait inside it is one sleep no longer than period.
C8_EveryAcquireReturns ==
    /\ [](max_calls >= 1 =>
            \A t \in Threads : pc[t] # "raised" /\ wake[t] - now[t] <= period)
    /\ \A t \in Threads :
          (max_calls >= 1 /\ pc[t] # "idle") ~> (pc[t] = "idle")

\* Witness of C8: a caller that had to queue for the lock behind a sleeping
\* holder has returned.
C8_Witness ==
    /\ max_calls >= 1
    /\ \E t \in Threads : wake[t] - now[t] = period
    /\ Len(grants) = MaxAcquires
    /\ \A t \in Threads : pc[t] = "idle"

====
